---- MODULE Spec2Model ----
(***************************************************************************)
(* A model of the CD+G decoder CdgParser of OpenKJ (libCDG.cpp): the       *)
(* decoder facade (reset, open, process, setTempo), the packet reader, the *)
(* command dispatcher and its handlers, the safe-area extractor, the frame *)
(* sampler and the time-indexed lookups.                                   *)
(*                                                                         *)
(* Geometry.  The source works on a 300x216 framebuffer, i.e. a grid of    *)
(* 50x18 tiles of 6x12 pixels with a one-tile border.  The tile size, the  *)
(* border widths and every offset derived from them are kept as in the     *)
(* source; only the number of tiles per line and per column is bounded     *)
(* (TileCols, TileRows), so that 300 reads FbWidth, 216 reads FbHeight,    *)
(* 294 reads FbWidth - 6, 204 reads FbHeight - 12, 288 reads SafeWidth and *)
(* 192 reads SafeHeight.  The framebuffer is the byte buffer behind        *)
(* QImage::bits(), addressed by byte offset as the source's pointer        *)
(* arithmetic does (one byte per pixel, bytesPerLine = width).             *)
(***************************************************************************)
EXTENDS Integers, Sequences, FiniteSets, TLC

VARIABLES
    m_isOpen,               \* bool
    m_needupdate,           \* bool
    m_lastCmdWasMempreset,  \* bool
    m_lastCDGCommandMS,     \* unsigned int
    m_position,             \* packets read so far
    m_curHOffset,           \* fine scroll, horizontal
    m_curVOffset,           \* fine scroll, vertical
    m_cdgData,              \* QByteArray: the sequence of input bytes
    m_image,                \* the framebuffer bytes, offset -> colour index
    m_colorTable,           \* the 16 palette entries of m_image
    m_frames,               \* sequence of [startTime, pixels]
    m_skip,                 \* sequence of booleans
    m_tempo,                \* int, percent
    memFault,               \* a handler accessed memory outside the framebuffer
    lastCall,               \* the operation called last
    ret,                    \* what it returned: "true", "false" or "void"
    opened                  \* whether open() was called since construction or the last
                            \* reset(), and the bytes it was handed

vars == <<m_isOpen, m_needupdate, m_lastCmdWasMempreset, m_lastCDGCommandMS,
          m_position, m_curHOffset, m_curVOffset, m_cdgData, m_image,
          m_colorTable, m_frames, m_skip, m_tempo, memFault, lastCall, ret,
          opened>>

(***************************************************************************)
(* Bounds of the model.                                                    *)
(***************************************************************************)
TileCols == 3       \* tiles per framebuffer line (50 in the source)
TileRows == 3       \* tiles per framebuffer column (18 in the source)
MaxFrames == 3      \* input streams span at most this many 40 ms frames
MaxMs == 170        \* timestamps asked of the lookups are 0..MaxMs
MaxPackets == 2     \* SpecLoop reads streams of at most this many packets

(***************************************************************************)
(* Geometry of the framebuffer.                                            *)
(***************************************************************************)
TileW == 6
TileH == 12
FbWidth == TileCols * TileW
FbHeight == TileRows * TileH
bytesPerLine == FbWidth
FbSize == bytesPerLine * FbHeight
m_borderLRBytes == 6
m_borderRBytesOffset == FbWidth - 6
SafeWidth == FbWidth - 12
SafeHeight == FbHeight - 24

(***************************************************************************)
(* Bytes and bit operations.                                               *)
(***************************************************************************)
Byte == 0..255

RECURSIVE XorBits(_, _, _)
XorBits(a, b, n) ==
    IF n = 0 THEN 0
    ELSE (IF (a % 2) # (b % 2) THEN 1 ELSE 0) + 2 * XorBits(a \div 2, b \div 2, n - 1)

\* a ^ b on unsigned char
Xor(a, b) == XorBits(a, b, 8)

\* (rowData & m_masks[i]) != 0, with m_masks = {0x20,0x10,0x08,0x04,0x02,0x01}
m_masks == <<32, 16, 8, 4, 2, 1>>
MaskBit(rowData, i) == ((rowData \div m_masks[i + 1]) % 2) = 1

Black == <<0, 0, 0>>

(***************************************************************************)
(* The subcode packet (cdg::CDG_SubCode) and the payload decoders of       *)
(* libCDG.h.  A packet is a sequence of 24 bytes: command, instruction,    *)
(* parityQ[2], data[16], parityP[4].                                       *)
(***************************************************************************)
PacketSize == 24
m_subcodeMask == 63
m_subcodeCommand == 9

CmdMemoryPreset == 1
CmdBorderPreset == 2
CmdTileBlock == 6
CmdScrollPreset == 20
CmdScrollCopy == 24
CmdDefineTrans == 28
CmdColorsLow == 30
CmdColorsHigh == 31
CmdTileBlockXOR == 38

command(subCode) == subCode[1]
instruction(subCode) == subCode[2]
\* data[j], j in 0..15
data(subCode) == [j \in 0..15 |-> subCode[5 + j]]

CdgMemoryPresetData(d) == [color |-> d[0] % 16, repeat |-> d[1] % 16]

CdgBorderPresetData(d) == [color |-> d[0] % 16]

CdgTileBlockData(d) ==
    [color0 |-> d[0] % 16,
     color1 |-> d[1] % 16,
     top |-> (d[2] % 32) * 12,
     left |-> (d[3] % 32) * 6,
     tilePixels |-> [y \in 0..11 |-> d[4 + y]]]

CdgScrollCmdData(d) ==
    [color |-> d[0] % 16,
     hSCmd |-> (d[1] \div 16) % 4,
     hSOffset |-> d[1] % 8,
     vSCmd |-> (d[2] \div 16) % 4,
     vSOffset |-> d[2] % 16]

\* one palette entry from its two payload bytes, 4 bits per channel widened by * 17
CdgColor(b0, b1) ==
    << ((b0 \div 4) % 16) * 17,
       (((b0 % 4) * 4) + ((b1 \div 64) % 4)) * 17,
       (b1 % 16) * 17 >>

CdgColorsData(d) == [colors |-> [k \in 0..7 |-> CdgColor(d[2 * k], d[2 * k + 1])]]

(***************************************************************************)
(* The command handlers.  Each takes the decoder fields it works on as a   *)
(* record dc and yields the record after the call.                         *)
(***************************************************************************)

\* m_image.fill(c)
Fill(c) == [o \in 0..(FbSize - 1) |-> c]

cmdBorderPreset(dc, borderPreset) ==
    [dc EXCEPT
        !.image = [o \in 0..(FbSize - 1) |->
            LET line == o \div bytesPerLine
                col == o % bytesPerLine
            IN IF line < 12 \/ line > FbHeight - 14
               THEN borderPreset.color
               ELSE IF col < m_borderLRBytes
                       \/ (col >= m_borderRBytesOffset
                           /\ col < m_borderRBytesOffset + m_borderLRBytes)
                    THEN borderPreset.color
                    ELSE dc.image[o]],
        !.needupdate = TRUE]

RECURSIVE cmdColorsFrom(_, _, _, _)
cmdColorsFrom(dc, colors, k, curColor) ==
    IF k > 7 THEN dc
    ELSE IF dc.colorTable[curColor] # colors[k]
         THEN cmdColorsFrom([dc EXCEPT !.colorTable[curColor] = colors[k],
                                       !.needupdate = TRUE],
                            colors, k + 1, curColor + 1)
         ELSE cmdColorsFrom(dc, colors, k + 1, curColor + 1)

cmdColors(dc, cdata, table) ==
    cmdColorsFrom(dc, cdata.colors, 0, IF table = "HighColors" THEN 8 ELSE 0)

cmdMemoryPreset(dc, memoryPreset) ==
    IF dc.lastCmdWasMempreset /\ memoryPreset.repeat # 0
    THEN dc
    ELSE [dc EXCEPT !.image = Fill(memoryPreset.color), !.needupdate = TRUE]

\* the byte offsets the twelve rows of six writes of cmdTileBlock address
TileOffsets(tb) ==
    { (y + tb.top) * bytesPerLine + tb.left + i : y \in 0..11, i \in 0..5 }

\* cmdTileBlock with the XOR case assigning (=) where the source has ^=
cmdTileBlockAssign(dc, tb, type) ==
    [dc EXCEPT
        !.image = [o \in 0..(FbSize - 1) |->
            LET r == o - tb.left - tb.top * bytesPerLine
                y == r \div bytesPerLine
                i == r % bytesPerLine
            IN IF r >= 0 /\ y \in 0..11 /\ i \in 0..5
               THEN IF MaskBit(tb.tilePixels[y], i) THEN tb.color1 ELSE tb.color0
               ELSE dc.image[o]],
        !.fault = @ \/ (\E o \in TileOffsets(tb) : o >= FbSize),
        !.needupdate = TRUE]

cmdTileBlock(dc, tb, type) ==
    [dc EXCEPT
        !.image = [o \in 0..(FbSize - 1) |->
            LET r == o - tb.left - tb.top * bytesPerLine
                y == r \div bytesPerLine
                i == r % bytesPerLine
            IN IF r >= 0 /\ y \in 0..11 /\ i \in 0..5
               THEN LET c == IF MaskBit(tb.tilePixels[y], i) THEN tb.color1 ELSE tb.color0
                    IN IF type = "TileBlockXOR" THEN Xor(dc.image[o], c) ELSE c
               ELSE dc.image[o]],
        !.fault = @ \/ (\E o \in TileOffsets(tb) : o >= FbSize),
        !.needupdate = TRUE]

(***************************************************************************)
(* cmdScroll.  The coarse shifts copy overlapping ranges with memcpy.      *)
(* When the destination lies below the source (left, up) every memcpy      *)
(* yields the shifted line; when it lies above (right, down) the result    *)
(* depends on the C library: ovl = "memmove" copies as memmove does,       *)
(* ovl = "forward" copies bytes in ascending order, re-reading bytes it    *)
(* has already written.                                                    *)
(***************************************************************************)
MemcpyKinds == {"memmove", "forward"}

scrollLeft(img, sc, type) ==
    [o \in 0..(FbSize - 1) |->
        LET col == o % bytesPerLine
            shifted == IF col < FbWidth - 6 THEN img[o + 6] ELSE img[o]
        IN IF type = "ScrollCopy"
           THEN IF col >= m_borderRBytesOffset /\ col < m_borderRBytesOffset + 6
                THEN img[o - m_borderRBytesOffset]
                ELSE shifted
           ELSE IF col >= m_borderLRBytes /\ col < m_borderLRBytes + 6
                THEN sc.color
                ELSE shifted]

scrollRight(img, sc, type, ovl) ==
    [o \in 0..(FbSize - 1) |->
        LET col == o % bytesPerLine
            line0 == o - col
        IN IF col < 6
           THEN IF type = "ScrollCopy" THEN img[line0 + (FbWidth - 6) + col] ELSE sc.color
           ELSE IF ovl = "memmove" THEN img[o - 6] ELSE img[line0 + (col % 6)]]

scrollUp(img, sc, type) ==
    [o \in 0..(FbSize - 1) |->
        IF o < (FbHeight - 12) * bytesPerLine
        THEN img[o + 12 * bytesPerLine]
        ELSE IF type = "ScrollCopy"
             THEN img[o - (FbHeight - 12) * bytesPerLine]
             ELSE sc.color]

scrollDown(img, sc, type, ovl) ==
    [o \in 0..(FbSize - 1) |->
        IF o < 12 * bytesPerLine
        THEN IF type = "ScrollCopy"
             THEN img[o + (FbHeight - 12) * bytesPerLine]
             ELSE sc.color
        ELSE IF ovl = "memmove"
             THEN img[o - 12 * bytesPerLine]
             ELSE img[o % (12 * bytesPerLine)]]

cmdScroll(dc, sc, type, ovl) ==
    LET img1 == IF sc.hSCmd = 2 THEN scrollLeft(dc.image, sc, type) ELSE dc.image
        img2 == IF sc.hSCmd = 1 THEN scrollRight(img1, sc, type, ovl) ELSE img1
        img3 == IF sc.vSCmd = 2 THEN scrollUp(img2, sc, type) ELSE img2
        img4 == IF sc.vSCmd = 1 THEN scrollDown(img3, sc, type, ovl) ELSE img3
    IN [dc EXCEPT
           !.image = img4,
           !.curHOffset = IF dc.curVOffset # sc.vSOffset THEN sc.hSOffset ELSE @,
           !.curVOffset = sc.vSOffset,
           !.needupdate = TRUE]

\* the handler only logs
cmdDefineTransparent(dc) == dc

(***************************************************************************)
(* getSafeArea: SafeHeight memcpy's of SafeWidth bytes each, the source    *)
(* offset computed from the fine scroll offsets.                           *)
(***************************************************************************)
SafeSrcOffset(dc, k) ==
    bytesPerLine * (12 + (k \div SafeWidth) + dc.curVOffset)
        + m_borderLRBytes + dc.curHOffset + (k % SafeWidth)

\* the read of the safe-area extractor leaves the framebuffer
SafeAreaFault(dc) == \E k \in 0..(SafeWidth * SafeHeight - 1) : SafeSrcOffset(dc, k) >= FbSize

getSafeArea(dc) ==
    [bits |-> [k \in 0..(SafeWidth * SafeHeight - 1) |->
                  LET o == SafeSrcOffset(dc, k)
                  IN IF o < FbSize THEN dc.image[o] ELSE 0],
     colorTable |-> dc.colorTable]

\* QImage::convertToFormat(Format_RGB32): every index resolved through the colour table
convertToFormat(image) ==
    [k \in 0..(SafeWidth * SafeHeight - 1) |->
        IF image.bits[k] < 16 THEN image.colorTable[image.bits[k]] ELSE Black]

(***************************************************************************)
(* The dispatcher.                                                         *)
(***************************************************************************)
\* readCdgSubcodePacket switching on instruction & 0x1F, a mask one bit short
readCdgSubcodePacketMask5(dc, subCode, ovl) ==
    IF (command(subCode) % 64) # m_subcodeCommand
    THEN dc
    ELSE LET instr == instruction(subCode) % 32
             pd == data(subCode)
             after ==
                CASE instr = CmdMemoryPreset -> cmdMemoryPreset(dc, CdgMemoryPresetData(pd))
                  [] instr = CmdBorderPreset -> cmdBorderPreset(dc, CdgBorderPresetData(pd))
                  [] instr = CmdTileBlock -> cmdTileBlock(dc, CdgTileBlockData(pd), "TileBlockNormal")
                  [] instr = CmdScrollPreset -> cmdScroll(dc, CdgScrollCmdData(pd), "ScrollPreset", ovl)
                  [] instr = CmdScrollCopy -> cmdScroll(dc, CdgScrollCmdData(pd), "ScrollCopy", ovl)
                  [] instr = CmdDefineTrans -> cmdDefineTransparent(dc)
                  [] instr = CmdColorsLow -> cmdColors(dc, CdgColorsData(pd), "LowColors")
                  [] instr = CmdColorsHigh -> cmdColors(dc, CdgColorsData(pd), "HighColors")
                  [] OTHER -> dc
         IN [after EXCEPT !.lastCmdWasMempreset = (instruction(subCode) = CmdMemoryPreset)]

readCdgSubcodePacket(dc, subCode, ovl) ==
    IF (command(subCode) % 64) # m_subcodeCommand
    THEN dc
    ELSE LET instr == instruction(subCode) % 64
             pd == data(subCode)
             after ==
                CASE instr = CmdMemoryPreset -> cmdMemoryPreset(dc, CdgMemoryPresetData(pd))
                  [] instr = CmdBorderPreset -> cmdBorderPreset(dc, CdgBorderPresetData(pd))
                  [] instr = CmdTileBlock -> cmdTileBlock(dc, CdgTileBlockData(pd), "TileBlockNormal")
                  [] instr = CmdScrollPreset -> cmdScroll(dc, CdgScrollCmdData(pd), "ScrollPreset", ovl)
                  [] instr = CmdScrollCopy -> cmdScroll(dc, CdgScrollCmdData(pd), "ScrollCopy", ovl)
                  [] instr = CmdDefineTrans -> cmdDefineTransparent(dc)
                  [] instr = CmdColorsLow -> cmdColors(dc, CdgColorsData(pd), "LowColors")
                  [] instr = CmdColorsHigh -> cmdColors(dc, CdgColorsData(pd), "HighColors")
                  [] instr = CmdTileBlockXOR -> cmdTileBlock(dc, CdgTileBlockData(pd), "TileBlockXOR")
                  [] OTHER -> dc
         IN [after EXCEPT !.lastCmdWasMempreset = (instruction(subCode) = CmdMemoryPreset)]

(***************************************************************************)
(* The decoder facade.                                                     *)
(***************************************************************************)

\* position() with the division done on integers (300 for 300.0)
positionIntDiv(pos) == (pos \div 300) * 1000

\* position(): (int)(float)((m_position / 300.0) * 1000).  The double product is
\* within rounding of 10 * pos / 3 and the float nearest to it truncates to the
\* integer part for every pos below 2^20, far above the stream lengths used here.
position(pos) == (pos * 1000) \div 300

\* the fields the handlers work on, as a record
Decoder ==
    [image |-> m_image,
     colorTable |-> m_colorTable,
     needupdate |-> m_needupdate,
     lastCmdWasMempreset |-> m_lastCmdWasMempreset,
     lastCDGCommandMS |-> m_lastCDGCommandMS,
     position |-> m_position,
     curHOffset |-> m_curHOffset,
     curVOffset |-> m_curVOffset,
     frames |-> m_frames,
     skip |-> m_skip,
     fault |-> memFault]

\* the same fields as reset() leaves them
ResetDecoder ==
    [image |-> Fill(0),
     colorTable |-> [c \in 0..15 |-> Black],
     needupdate |-> TRUE,
     lastCmdWasMempreset |-> FALSE,
     lastCDGCommandMS |-> 0,
     position |-> 0,
     curHOffset |-> 0,
     curVOffset |-> 0,
     frames |-> << >>,
     skip |-> << >>,
     fault |-> FALSE]

\* ioDevice.read((char *)&subCode, sizeof(subCode)) at byte offset off: the bytes
\* read overwrite the head of subCode, the rest of subCode keeps its old bytes
readPacket(bytes, off, subCode) ==
    LET n == IF Len(bytes) - off < PacketSize THEN Len(bytes) - off ELSE PacketSize
    IN [k \in 1..PacketSize |-> IF k <= n THEN bytes[off + k] ELSE subCode[k]]

\* sampleFrame with setStartTime applied to a detached copy of the frame: the
\* stored frame keeps the start time -1 of a new QVideoFrame
sampleFrameDetached(dc) ==
    [dc EXCEPT
        !.skip = Append(@, ~dc.needupdate),
        !.frames = Append(@, [startTime |-> -1,
                              pixels |-> convertToFormat(getSafeArea(dc))]),
        !.fault = @ \/ SafeAreaFault(dc)]

\* the frame appended at a 40 ms boundary: `frame` is a copy of the stored
\* QVideoFrame, the two share their data, so setStartTime reaches the stored one
sampleFrame(dc) ==
    [dc EXCEPT
        !.skip = Append(@, ~dc.needupdate),
        !.frames = Append(@, [startTime |-> position(dc.position),
                              pixels |-> convertToFormat(getSafeArea(dc))]),
        !.fault = @ \/ SafeAreaFault(dc)]

\* the while loop of process(), from byte offset off on
RECURSIVE processLoop(_, _, _, _, _, _)
processLoop(dc, bytes, off, subCode, frameno, ovl) ==
    IF Len(bytes) - off <= 0
    THEN dc
    ELSE LET sc == readPacket(bytes, off, subCode)
             d1 == readCdgSubcodePacket([dc EXCEPT !.needupdate = FALSE], sc, ovl)
             d2 == IF d1.needupdate
                   THEN [d1 EXCEPT !.lastCDGCommandMS = frameno * 40]
                   ELSE d1
             d3 == [d2 EXCEPT !.position = @ + 1]
             boundary == (position(d3.position) % 40) = 0 /\ position(d3.position) >= 40
         IN IF boundary
            THEN processLoop(sampleFrame(d3), bytes, off + PacketSize, sc, frameno + 1, ovl)
            ELSE processLoop(d3, bytes, off + PacketSize, sc, frameno, ovl)

\* process() on decoder dc holding bytes; garbage is what the uninitialised
\* subCode holds before the first read
process(dc, bytes, garbage, ovl) ==
    processLoop([dc EXCEPT !.needupdate = FALSE], bytes, 0, garbage, 0, ovl)

\* canSkipFrameByTime / videoFrameByTime scale by ((float)m_tempo / 100.0); the
\* tempos used are those whose factor is exact in binary floating point.
\* setTempo stores any int it is handed; 0 stands for the values <= 0.
Tempos == {0, 50, 100, 200}

unpack(dc) ==
    /\ m_image' = dc.image
    /\ m_colorTable' = dc.colorTable
    /\ m_needupdate' = dc.needupdate
    /\ m_lastCmdWasMempreset' = dc.lastCmdWasMempreset
    /\ m_lastCDGCommandMS' = dc.lastCDGCommandMS
    /\ m_position' = dc.position
    /\ m_curHOffset' = dc.curHOffset
    /\ m_curVOffset' = dc.curVOffset
    /\ m_frames' = dc.frames
    /\ m_skip' = dc.skip
    /\ memFault' = dc.fault

\* the assignments of reset(), m_cdgData apart
resetFields ==
    /\ unpack(ResetDecoder)
    /\ m_isOpen' = FALSE
    /\ m_tempo' = 100

\* reset()
reset ==
    /\ resetFields
    /\ m_cdgData' = << >>

\* open(byteArray, bypassReset) after its optional reset()
openStore(byteArray) ==
    /\ m_cdgData' = byteArray
    /\ ret' = IF Len(byteArray) = 0 THEN "false" ELSE "true"

\* open with the test for zero bytes moved before the reset()
openEmptyFirst(byteArray, bypassReset) ==
    /\ IF bypassReset \/ Len(byteArray) = 0
       THEN UNCHANGED <<m_isOpen, m_needupdate, m_lastCmdWasMempreset,
                        m_lastCDGCommandMS, m_position, m_curHOffset, m_curVOffset,
                        m_image, m_colorTable, m_frames, m_skip, m_tempo, memFault>>
       ELSE resetFields
    /\ openStore(byteArray)

\* open(byteArray, bypassReset)
open(byteArray, bypassReset) ==
    /\ IF bypassReset
       THEN UNCHANGED <<m_isOpen, m_needupdate, m_lastCmdWasMempreset,
                        m_lastCDGCommandMS, m_position, m_curHOffset, m_curVOffset,
                        m_image, m_colorTable, m_frames, m_skip, m_tempo, memFault>>
       ELSE resetFields
    /\ openStore(byteArray)

\* open(filename): reset(), m_cdgData = file.readAll(), open(m_cdgData, true)
openFile(contents) ==
    /\ resetFields
    /\ openStore(contents)

(***************************************************************************)
(* The lookups by time.  size_t is unsigned: frameno - 1 at frameno = 0    *)
(* and size() - 1 at size() = 0 wrap to the largest size_t, for which      *)
(* std::vector::at throws out_of_range as for every index outside          *)
(* [0, size).  The wrapped index is written -1 here, an index out of range *)
(* like the one it stands for.  Each lookup is two operators: whether one  *)
(* of its at() calls throws, and the value it returns when none does.      *)
(***************************************************************************)

\* m_skip.at(i) / m_frames.at(i) throws
skipAtThrows(i) == ~(i >= 0 /\ i < Len(m_skip))
frameAtThrows(i) == ~(i >= 0 /\ i < Len(m_frames))

\* m_skip.at(i), i in range
skipAt(i) == m_skip[i + 1]

\* the frame number of canSkipFrameByTime computed from the unscaled time
canSkipFrameNoUnscaled(ms) ==
    (ms \div 40) + (IF ms % 40 > 0 THEN 1 ELSE 0)

\* the frame number canSkipFrameByTime computes
canSkipFrameNo(ms) ==
    LET scaledMs == (ms * m_tempo) \div 100
    IN (scaledMs \div 40) + (IF ms % 40 > 0 THEN 1 ELSE 0)

\* canSkipFrameByTime leaves by an out_of_range exception
canSkipThrows(ms) ==
    LET frameno == canSkipFrameNo(ms)
    IN /\ ~(frameno > Len(m_frames))
       /\ \/ skipAtThrows(frameno - 1)
          \/ skipAtThrows(frameno)
          \/ skipAtThrows(frameno + 1)

\* canSkipFrameByTime without the look at the previous frame
canSkipNoPrev(ms) ==
    LET frameno == canSkipFrameNo(ms)
    IN IF frameno > Len(m_frames) THEN FALSE
       ELSE skipAt(frameno) /\ skipAt(frameno + 1)

\* the value canSkipFrameByTime returns when it does not throw
canSkipFrameByTime(ms) ==
    LET frameno == canSkipFrameNo(ms)
    IN IF frameno > Len(m_frames) THEN FALSE
       ELSE skipAt(frameno - 1) /\ skipAt(frameno) /\ skipAt(frameno + 1)

\* the frame number videoFrameByTime computes
videoFrameNo(ms) ==
    ((ms * m_tempo) \div (100 * 40)) + (IF ms % 40 > 0 THEN 1 ELSE 0)

\* videoFrameByTime leaves by an out_of_range exception
videoFrameThrows(ms) ==
    IF videoFrameNo(ms) >= Len(m_frames)
    THEN frameAtThrows(Len(m_frames) - 1)
    ELSE frameAtThrows(videoFrameNo(ms))

\* videoFrameByTime: the index into m_frames of the frame it returns
videoFrameByTime(ms) ==
    LET frameno == videoFrameNo(ms)
    IN IF frameno >= Len(m_frames)
       THEN Len(m_frames) - 1
       ELSE frameno

duration == Len(m_cdgData) * 40

isOpen == m_isOpen

lastCDGUpdate == m_lastCDGCommandMS

tempo == m_tempo

(***************************************************************************)
(* The input streams handed to open().  A stream is a run of whole packets *)
(* that are idle (not CDG commands) except at a slot of Slots1 and at the  *)
(* slot of Slots2, some followed by a partial packet of TailLens bytes.    *)
(***************************************************************************)
Zeros(n) == [k \in 1..n |-> 0]

\* a packet with the given command and instruction bytes and payload head
Pkt(cmd, instr, payload) ==
    <<cmd, instr, 0, 0>> \o payload \o Zeros(16 - Len(payload)) \o Zeros(4)

IdlePkt == Pkt(0, 0, << >>)
\* Memory Preset, colour 1, repeat 0
MemPresetPkt == Pkt(9, 1, <<1, 0>>)
\* Load Colors Low: entry 1 becomes (255, 204, 255), the others stay black
ColorsLowPkt == Pkt(9, 30, <<0, 0, 63, 63>>)
\* Tile Block Normal at row 1, column 1, colours 0 and 1, rows 101010
TilePkt == Pkt(9, 6, <<0, 1, 1, 1, 42, 42, 42, 42, 42, 42, 42, 42, 42, 42, 42, 42>>)
\* Border Preset, colour 2
BorderPkt == Pkt(9, 2, <<2>>)
\* Scroll Copy without coarse shift, hSOffset 3, vSOffset 5
ScrollCopyPkt == Pkt(9, 24, <<0, 3, 5>>)

\* Memory Preset, colour 2, repeat 1
MemPresetRepeatPkt == Pkt(9, 1, <<2, 1>>)
\* Memory Preset, colour 3, repeat 1, the two high bits of the instruction byte 01
MemPresetHighPkt == Pkt(9, 65, <<3, 1>>)
\* Tile Block XOR at row 1, column 1, colours 1 and 3, rows 101010
TileXorPkt == Pkt(9, 38, <<1, 3, 1, 1, 42, 42, 42, 42, 42, 42, 42, 42, 42, 42, 42, 42>>)
\* Tile Block Normal at row 31, column 1: below the last line of the framebuffer
TileOutsidePkt == Pkt(9, 6, <<0, 1, 31, 1, 42, 42, 42, 42, 42, 42, 42, 42, 42, 42, 42, 42>>)
\* Scroll Preset, colour 4, hSCmd 2 (left), no vertical shift, offsets 0
ScrollPresetLeftPkt == Pkt(9, 20, <<4, 32, 0>>)
\* Scroll Copy, hSCmd 2 (left), no vertical shift, offsets 0
ScrollCopyLeftPkt == Pkt(9, 24, <<0, 32, 0>>)
\* Scroll Copy, hSCmd 1 (right), no vertical shift, offsets 0
ScrollCopyRightPkt == Pkt(9, 24, <<0, 16, 0>>)
\* Scroll Copy without coarse shift, hSOffset 4, vSOffset 5
ScrollSameVPkt == Pkt(9, 24, <<0, 4, 5>>)
\* Scroll Copy without coarse shift, offset fields 7 and 15
ScrollFarPkt == Pkt(9, 24, <<0, 7, 15>>)

\* a CDG command with instruction 0x21, a code the dispatcher has no case for
UnknownPkt == Pkt(9, 33, <<5, 0>>)

Packets == {IdlePkt, MemPresetPkt, ColorsLowPkt, TilePkt, BorderPkt, ScrollCopyPkt}
Slot2Packets == {IdlePkt, MemPresetPkt}

Slots1 == {1, 12}
Slots2 == {13}
\* packet counts around the frame boundaries
Lengths == {12 * f + r : f \in 0..MaxFrames, r \in {0, 11}}
\* bytes of a trailing partial packet, cut from MemPresetPkt
TailLens == {2, 23}
\* packet counts of the streams that end in a partial packet
TailLengths == {0, 11, 12}

RECURSIVE Flatten(_)
Flatten(pkts) == IF pkts = << >> THEN << >> ELSE Head(pkts) \o Flatten(Tail(pkts))

Stream(n, s1, a, b, t) ==
    Flatten([k \in 1..n |-> IF k = s1 THEN a ELSE IF k \in Slots2 THEN b ELSE IdlePkt])
        \o SubSeq(MemPresetPkt, 1, t)

\* streams of whole packets
WholeStreams ==
    { Stream(n, s1, a, b, 0) :
        n \in Lengths, s1 \in Slots1, a \in Packets, b \in Slot2Packets }

\* streams whose length is not a multiple of the packet size
TailStreams ==
    { Stream(n, 12, a, IdlePkt, t) :
        n \in TailLengths, a \in {IdlePkt, TilePkt}, t \in TailLens }

Streams == WholeStreams \cup TailStreams

\* the files open(filename) reads: missing or empty, and a few streams
FileContents ==
    { Stream(n, 1, ColorsLowPkt, MemPresetPkt, 0) : n \in {0, 12, 24} }

\* the input of the last open() cut to whole packets
WholePackets(bytes) == SubSeq(bytes, 1, (Len(bytes) \div PacketSize) * PacketSize)

(***************************************************************************)
(* The state machine: the calls a host makes on one CdgParser.             *)
(***************************************************************************)
Init ==
    /\ m_isOpen = FALSE
    /\ m_needupdate = TRUE
    /\ m_lastCmdWasMempreset = FALSE
    /\ m_lastCDGCommandMS = 0
    /\ m_position = 0
    /\ m_curHOffset = 0
    /\ m_curVOffset = 0
    /\ m_cdgData = << >>
    /\ m_image = Fill(0)
    /\ m_colorTable = [c \in 0..15 |-> Black]
    /\ m_frames = << >>
    /\ m_skip = << >>
    /\ m_tempo = 100
    /\ memFault = FALSE
    /\ lastCall = "CdgParser"
    /\ ret = "void"
    /\ opened = [called |-> FALSE, bytes |-> << >>]

Reset ==
    /\ reset
    /\ lastCall' = "reset"
    /\ ret' = "void"
    /\ opened' = [called |-> FALSE, bytes |-> << >>]

Open ==
    \E byteArray \in Streams :
        /\ open(byteArray, FALSE)
        /\ lastCall' = "open"
        /\ opened' = [called |-> TRUE, bytes |-> byteArray]

OpenFile ==
    \E contents \in FileContents :
        /\ openFile(contents)
        /\ lastCall' = "openFile"
        /\ opened' = [called |-> TRUE, bytes |-> contents]

\* the uninitialised subCode is read only when the first read is short
Garbage == IF Len(m_cdgData) \in 1..(PacketSize - 1) THEN Packets ELSE {IdlePkt}

\* process() without the m_cdgData.clear() before it returns
ProcessKeepData ==
    \E garbage \in Garbage, ovl \in MemcpyKinds :
        /\ unpack(process(Decoder, m_cdgData, garbage, ovl))
        /\ m_cdgData' = m_cdgData
        /\ m_isOpen' = TRUE
        /\ ret' = "true"
        /\ lastCall' = "process"
        /\ UNCHANGED <<m_tempo, opened>>

Process ==
    \E garbage \in Garbage, ovl \in MemcpyKinds :
        /\ unpack(process(Decoder, m_cdgData, garbage, ovl))
        /\ m_cdgData' = << >>
        /\ m_isOpen' = TRUE
        /\ ret' = "true"
        /\ lastCall' = "process"
        /\ UNCHANGED <<m_tempo, opened>>

SetTempo ==
    \E percent \in Tempos :
        /\ m_tempo' = percent
        /\ lastCall' = "setTempo"
        /\ ret' = "void"
        /\ UNCHANGED <<m_isOpen, m_needupdate, m_lastCmdWasMempreset,
                       m_lastCDGCommandMS, m_position, m_curHOffset, m_curVOffset,
                       m_cdgData, m_image, m_colorTable, m_frames, m_skip,
                       memFault, opened>>

Next == Reset \/ Open \/ OpenFile \/ Process \/ SetTempo

Spec == Init /\ [][Next]_vars

(***************************************************************************)
(* The loop of process() taken one packet at a time: the decoder after     *)
(* reset() and open(), at the head of the while loop, reads one packet per *)
(* step.  The stream is any sequence of at most MaxPackets packets of      *)
(* LoopPackets; m_cdgData and opened.bytes hold it as far as it was read.  *)
(***************************************************************************)
LoopPackets ==
    {IdlePkt, MemPresetPkt, MemPresetRepeatPkt, MemPresetHighPkt, ColorsLowPkt,
     TilePkt, TileXorPkt, TileOutsidePkt, BorderPkt, ScrollPresetLeftPkt,
     ScrollCopyLeftPkt, ScrollCopyRightPkt, ScrollCopyPkt, ScrollSameVPkt,
     ScrollFarPkt, UnknownPkt}

LoopInit ==
    /\ m_isOpen = FALSE
    /\ m_needupdate = FALSE
    /\ m_lastCmdWasMempreset = FALSE
    /\ m_lastCDGCommandMS = 0
    /\ m_position = 0
    /\ m_curHOffset = 0
    /\ m_curVOffset = 0
    /\ m_cdgData = << >>
    /\ m_image = Fill(0)
    /\ m_colorTable = [c \in 0..15 |-> Black]
    /\ m_frames = << >>
    /\ m_skip = << >>
    /\ m_tempo = 100
    /\ memFault = FALSE
    /\ lastCall = "process"
    /\ ret = "void"
    /\ opened = [called |-> TRUE, bytes |-> << >>]

\* one iteration of the while loop of process()
ReadPacket ==
    /\ Len(opened.bytes) < MaxPackets * PacketSize
    /\ \E subCode \in LoopPackets, ovl \in MemcpyKinds :
          /\ unpack(processLoop(Decoder, subCode, 0, subCode, Len(m_frames), ovl))
          /\ m_cdgData' = m_cdgData \o subCode
          /\ opened' = [opened EXCEPT !.bytes = @ \o subCode]
          /\ lastCall' = "readCdgSubcodePacket"
          /\ UNCHANGED <<m_isOpen, m_tempo, ret>>

NextLoop == ReadPacket

SpecLoop == LoopInit /\ [][NextLoop]_vars

TypeOK ==
    /\ m_isOpen \in BOOLEAN
    /\ m_needupdate \in BOOLEAN
    /\ m_position \in Nat
    /\ Len(m_frames) = Len(m_skip)

(***************************************************************************)
(* Properties.                                                             *)
(***************************************************************************)

\* process() has run over the input of the last open()
Processed == m_isOpen /\ opened.called

\* the number of whole 24-byte packets of the input of the last open()
PacketCount == Len(opened.bytes) \div PacketSize

\* the decoder after process() has read the first k whole packets of the input
\* (the streams hold no coarse scroll to the right or down, and a whole first
\* packet leaves nothing of the uninitialised subCode)
After(k) ==
    process(ResetDecoder, SubSeq(opened.bytes, 1, k * PacketSize), IdlePkt, "memmove")

\* what a viewer sees of a decoder: framebuffer, palette, fine scroll offsets
Visible(dc) == <<dc.image, dc.colorTable, dc.curHOffset, dc.curVOffset>>

\* C1: after open(bytes) with a whole number of packets and process(), the
\* frame sequence and the skip sequence have the same length, the number of
\* packets (CDG commands or not) divided by 12, rounded down.
C1_FrameCount ==
    (Processed /\ Len(opened.bytes) % PacketSize = 0)
        => /\ Len(m_frames) = Len(m_skip)
           /\ Len(m_frames) = PacketCount \div 12

\* C1 witness: a processed stream of 35 whole packets, one of them a command, gave 2 frames
C1_Witness ==
    /\ Processed
    /\ Len(opened.bytes) = 35 * PacketSize
    /\ Len(m_frames) = 2
    /\ Len(m_skip) = 2
    /\ m_image # Fill(0)

\* C2: skip[i] is true only if none of the 12 packets at stream positions
\* 12i+1 .. 12i+12 changed the framebuffer, the palette or the fine offsets.
C2_SkipOnlyIfNoChange ==
    (Processed /\ Len(opened.bytes) % PacketSize = 0)
        => \A i \in 0..(Len(m_skip) - 1) :
              m_skip[i + 1]
                  => \A k \in (12 * i + 1)..(12 * i + 12) :
                        Visible(After(k)) = Visible(After(k - 1))

\* C3: for every frame index i >= 1, if skip[i] is true then every pixel of
\* frame[i] equals the corresponding pixel of frame[i-1].
C3_SkipMeansSamePixels ==
    Processed
        => \A i \in 1..(Len(m_frames) - 1) :
              m_skip[i + 1] => m_frames[i + 1].pixels = m_frames[i].pixels

\* C4: for every frame index i (0-based), frame[i].startTime = (i+1) * 40 ms.
C4_StartTime ==
    \A i \in 0..(Len(m_frames) - 1) : m_frames[i + 1].startTime = (i + 1) * 40

\* C4 witness: process() has sampled three frames
C4_Witness ==
    /\ Processed
    /\ Len(m_frames) = 3
    /\ m_frames[3].startTime = 120
    /\ m_position >= 36

\* ceil(ms * tempo/100 / 40)
CeilFrame(ms) == ((ms * m_tempo) + (100 * 40 - 1)) \div (100 * 40)

\* the timestamps asked of the lookups
Timestamps == 0..MaxMs

\* C5: with at least one frame, for every ms >= 0 and tempo > 0, frame_at(ms)
\* returns the frame at index ceil(ms * tempo/100 / 40) when that index is
\* below the number of frames, and the last frame otherwise.
C5_FrameAtCeil ==
    (Processed /\ Len(m_frames) >= 1 /\ m_tempo > 0)
        => \A ms \in Timestamps :
              /\ ~videoFrameThrows(ms)
              /\ videoFrameByTime(ms) =
                    (IF CeilFrame(ms) < Len(m_frames) THEN CeilFrame(ms)
                                                      ELSE Len(m_frames) - 1)

\* C6: for every ms whose frame index f has both neighbours inside the skip
\* sequence (1 <= f <= len(skip) - 2), can_skip_at(ms) is true if and only if
\* skip[f-1], skip[f] and skip[f+1] are all true; f is the frame index the
\* frame lookup (videoFrameByTime) resolves ms to.
C6_CanSkipIffThree ==
    Processed
        => \A ms \in Timestamps :
              LET f == videoFrameNo(ms)
              IN (1 <= f /\ f <= Len(m_skip) - 2)
                    => /\ ~canSkipThrows(ms)
                       /\ canSkipFrameByTime(ms) = (m_skip[f] /\ m_skip[f + 1] /\ m_skip[f + 2])

\* C6 witness: three frames, a timestamp in the middle one, all three skippable
C6_Witness ==
    /\ Processed
    /\ Len(m_skip) >= 3
    /\ \E ms \in Timestamps :
          /\ videoFrameNo(ms) = 1
          /\ m_skip[1] /\ m_skip[2] /\ m_skip[3]
          /\ ~canSkipThrows(ms)
          /\ canSkipFrameByTime(ms)

\* C7: when the input length is not a multiple of 24 the trailing bytes are
\* discarded: process() ends with the same framebuffer, palette, fine offsets,
\* stream position, frames and skip flags as for the input cut to whole packets.
C7_PartialPacketDiscarded ==
    (Processed /\ lastCall = "process")
        => LET cut == After(PacketCount)
           IN /\ m_image = cut.image
              /\ m_colorTable = cut.colorTable
              /\ m_curHOffset = cut.curHOffset
              /\ m_curVOffset = cut.curVOffset
              /\ m_position = cut.position
              /\ m_frames = cut.frames
              /\ m_skip = cut.skip

\* C8: duration() returns packet_count * 40 / 12 ms for the stream given to
\* open(), both after open() and after process() has completed.
C8_Duration ==
    (opened.called /\ lastCall \in {"open", "openFile", "process"})
        => duration = (PacketCount * 40) \div 12

\* C9: process() returns success if and only if the preceding open() received
\* non-empty input; after open() of zero bytes a following process() does not
\* return success and does not set the is-open flag.
C9_ProcessFailsOnEmpty ==
    (opened.called /\ lastCall = "process")
        => /\ (ret = "true") <=> (Len(opened.bytes) # 0)
           /\ (Len(opened.bytes) = 0) => ~m_isOpen

\* the state reset() leaves the decoder in
InResetState ==
    /\ m_frames = << >>
    /\ m_skip = << >>
    /\ m_image = Fill(0)
    /\ m_colorTable = [c \in 0..15 |-> Black]
    /\ m_curHOffset = 0
    /\ m_curVOffset = 0
    /\ m_position = 0
    /\ m_tempo = 100
    /\ m_isOpen = FALSE

\* C10: open() called with zero bytes returns failure and leaves the decoder in
\* the reset state, whatever state the decoder was in before the call.
C10_EmptyOpenResets ==
    [][ (lastCall' \in {"open", "openFile"} /\ Len(opened'.bytes) = 0)
            => (ret' = "false" /\ InResetState') ]_vars

\* C10 witness: open() of zero bytes has returned failure on a reset decoder
C10_Witness ==
    /\ lastCall = "open"
    /\ opened.called
    /\ Len(opened.bytes) = 0
    /\ ret = "false"
    /\ InResetState

(***************************************************************************)
(* Properties of the calls made after process().                           *)
(***************************************************************************)

\* C11: a second process() call without an intervening reset() or open() is
\* a no-op: it returns success and leaves the frames, the skip flags, the
\* framebuffer, the palette, the fine offsets, the stream position, the time
\* of the last update and the is-open flag as the first process() left them.
\* (m_isOpen is set by process() only and cleared by every reset() and open().)
C11_SecondProcessNoOp ==
    [][ (m_isOpen /\ lastCall' = "process")
            => /\ ret' = "true"
               /\ m_frames' = m_frames
               /\ m_skip' = m_skip
               /\ m_image' = m_image
               /\ m_colorTable' = m_colorTable
               /\ m_curHOffset' = m_curHOffset
               /\ m_curVOffset' = m_curVOffset
               /\ m_position' = m_position
               /\ m_lastCDGCommandMS' = m_lastCDGCommandMS
               /\ m_isOpen' = m_isOpen ]_vars

\* C11 witness: process() has run twice over a stream of 12 packets that ends
\* in a Memory Preset.  The first run sampled its one frame with m_needupdate
\* set (skip[0] is false) and returned with it set; only a second run, which
\* clears the flag and reads nothing, leaves it cleared.
C11_Witness ==
    /\ lastCall = "process"
    /\ m_isOpen
    /\ Len(opened.bytes) = 12 * PacketSize
    /\ m_skip = <<FALSE>>
    /\ Len(m_frames) = 1
    /\ m_position = 12
    /\ m_needupdate = FALSE

\* C12: in every reachable state the tempo is at least 1: set_tempo(n) with
\* n <= 0 is rejected or clamped to 1, so tempo() never returns a value <= 0.
C12_TempoPositive == tempo >= 1

(***************************************************************************)
(* Properties of the command handlers, stated of the packets read by the   *)
(* loop of process().                                                      *)
(***************************************************************************)

\* the k-th packet read, k in 1..PacketCount, and the packet read last
PacketAt(k) == SubSeq(opened.bytes, (k - 1) * PacketSize + 1, k * PacketSize)
LastPacket == PacketAt(PacketCount)

\* a packet was read and it is a CDG command with the given instruction code
LastIs(instr) ==
    /\ PacketCount >= 1
    /\ Len(opened.bytes) % PacketSize = 0
    /\ command(LastPacket) % 64 = m_subcodeCommand
    /\ instruction(LastPacket) % 64 = instr

\* the cells the safe-area extractor reads, as <<column, line>>
SafeAreaCells ==
    { << m_borderLRBytes + m_curHOffset + x, 12 + m_curVOffset + y >> :
        x \in 0..(SafeWidth - 1), y \in 0..(SafeHeight - 1) }

\* C13: in every reachable state hOffset <= 5 and vOffset <= 11, so that the
\* safe-area extractor reads only cells with column in [6, FbWidth - 2] and
\* line in [12, FbHeight - 2] (298 and 214 in the source's framebuffer).
C13_OffsetsInRange ==
    /\ m_curHOffset <= 5
    /\ m_curVOffset <= 11
    /\ \A cell \in SafeAreaCells :
          /\ cell[1] >= 6 /\ cell[1] <= FbWidth - 2
          /\ cell[2] >= 12 /\ cell[2] <= FbHeight - 2
    /\ ~SafeAreaFault(Decoder)

\* C14: for every Tile Block packet (replace or XOR), also one whose row or
\* column places the tile beyond the framebuffer, the handler accesses only
\* cells inside the framebuffer, and decoding continues.
C14_TileWritesInside ==
    [][ ((LastIs(CmdTileBlock)' \/ LastIs(CmdTileBlockXOR)') /\ ~memFault)
            => ~memFault' ]_vars

\* the payload of the packet read last, decoded as a scroll command
LastScroll == CdgScrollCmdData(data(LastPacket))

\* C15: after every Scroll Preset or Scroll Copy command, whatever the offsets
\* were before it, hOffset equals the command's hSOffset and vOffset equals
\* its vSOffset, also when the command's vSOffset equals the current vOffset.
C15_ScrollSetsOffsets ==
    (LastIs(CmdScrollPreset) \/ LastIs(CmdScrollCopy))
        => /\ m_curHOffset = LastScroll.hSOffset
           /\ m_curVOffset = LastScroll.vSOffset

\* C16: a Scroll Preset command with hSCmd = 2 (and no vertical shift) moves
\* every framebuffer line left by 6 pixels and fills the vacated right 6
\* columns (FbWidth - 6 .. FbWidth - 1, 294..299 in the source) with the
\* command's colour; no column to their left takes the fill colour.
C16_ScrollPresetLeft ==
    [][ (LastIs(CmdScrollPreset)' /\ LastScroll'.hSCmd = 2 /\ LastScroll'.vSCmd = 0)
            => \A o \in 0..(FbSize - 1) :
                  IF o % bytesPerLine < FbWidth - 6
                  THEN m_image'[o] = m_image[o + 6]
                  ELSE m_image'[o] = LastScroll'.color ]_vars

\* the framebuffer after the dispatcher has handled the packets of pkts, in
\* order, on decoder dc
RECURSIVE Dispatched(_, _, _)
Dispatched(dc, pkts, ovl) ==
    IF pkts = << >> THEN dc
    ELSE Dispatched(readCdgSubcodePacket(dc, Head(pkts), ovl), Tail(pkts), ovl)

\* C17: for every framebuffer content, a Scroll Copy with hSCmd = 2 (left by
\* 6) followed by a Scroll Copy with hSCmd = 1 (right by 6), both with
\* vSCmd = 0, returns the framebuffer to its original contents.
C17_ScrollCopyRoundTrip ==
    \A ovl \in MemcpyKinds :
        Dispatched(Decoder, <<ScrollCopyLeftPkt, ScrollCopyRightPkt>>, ovl).image = m_image

\* in-bounds XOR tile blocks: two pairs of colours, each with its own tile
\* pixel rows, at the first, an inner and the last tile of the framebuffer
XorTileBlocks ==
    { Pkt(9, 38, <<cp[1], cp[2], rc[1], rc[2]>> \o [y \in 1..12 |-> (cp[3] * y) % 64]) :
        cp \in {<<1, 3, 21>>, <<15, 0, 63>>},
        rc \in {<<0, 0>>, <<1, 1>>, <<TileRows - 1, TileCols - 1>>} }

\* the loop of process() has not read its last packet: the decoder states a
\* further packet is applied to
ReadsOn == Len(opened.bytes) < MaxPackets * PacketSize

\* C18: for every framebuffer content and every in-bounds XOR tile block,
\* applying the same XOR tile block twice in a row restores the framebuffer
\* to its contents before the first application, and no cell outside the 6x12
\* tile region changes at either step (the first application leaves the cells
\* outside as they were, and so, the second restoring all, does the second).
C18_XorInvolution ==
    ReadsOn
        => \A subCode \in XorTileBlocks :
              LET once == Dispatched(Decoder, <<subCode>>, "memmove")
                  twice == Dispatched(once, <<subCode>>, "memmove")
                  region == TileOffsets(CdgTileBlockData(data(subCode)))
              IN /\ twice.image = m_image
                 /\ \A o \in (0..(FbSize - 1)) \ region : once.image[o] = m_image[o]
                 /\ once.fault = memFault /\ twice.fault = memFault

\* C18 witness: the same XOR tile block read twice: the framebuffer after the
\* second is the one before the first and not the one after the first
C18_Witness ==
    /\ opened.bytes = TileXorPkt \o TileXorPkt
    /\ m_position = 2
    /\ m_image = After(0).image
    /\ m_image # After(1).image

\* the cells of the interior: columns 6 .. FbWidth - 7 and lines
\* 12 .. FbHeight - 13 (6..293 and 12..203 in the source's framebuffer)
Interior ==
    { o \in 0..(FbSize - 1) :
        /\ o % bytesPerLine >= 6 /\ o % bytesPerLine <= FbWidth - 7
        /\ o \div bytesPerLine >= 12 /\ o \div bytesPerLine <= FbHeight - 13 }

\* C19: a Border Preset command leaves every cell of the interior unchanged,
\* and so, with fine offsets 0, the indexed safe area sampled after it equals
\* the one sampled before it.
C19_BorderLeavesInterior ==
    [][ LastIs(CmdBorderPreset)'
            => /\ \A o \in Interior : m_image'[o] = m_image[o]
               /\ (m_curHOffset = 0 /\ m_curVOffset = 0)
                     => getSafeArea(Decoder)'.bits = getSafeArea(Decoder).bits ]_vars

\* the packet read before the last was a CDG command dispatched as Memory
\* Preset; packets that are not CDG commands are not dispatched
RECURSIVE PrevDispatchedWasMemPreset(_)
PrevDispatchedWasMemPreset(k) ==
    IF k < 1 THEN FALSE
    ELSE IF command(PacketAt(k)) % 64 = m_subcodeCommand
         THEN instruction(PacketAt(k)) % 64 = CmdMemoryPreset
         ELSE PrevDispatchedWasMemPreset(k - 1)

\* C20: a Memory Preset command (instruction & 0x3F = 1, whatever the two high
\* bits of the instruction byte) with repeat # 0 whose previous dispatched
\* command was also a Memory Preset leaves the framebuffer unchanged and does
\* not mark a visible change; every other Memory Preset fills all cells with
\* its colour and marks a visible change.
C20_MemoryPresetRepeat ==
    [][ LastIs(CmdMemoryPreset)'
            => LET mp == CdgMemoryPresetData(data(LastPacket'))
               IN IF mp.repeat # 0 /\ PrevDispatchedWasMemPreset(PacketCount)
                  THEN m_image' = m_image /\ ~m_needupdate'
                  ELSE m_image' = Fill(mp.color) /\ m_needupdate' ]_vars

\* the codes of the dispatch table of the specification, and those the
\* dispatcher has a case for
TableCodes == {1, 2, 6, 20, 24, 28, 30, 31}
HandledCodes == TableCodes \cup {CmdTileBlockXOR}

\* the decoder at the head of a loop iteration reads a CDG packet with the
\* given instruction byte (its payload that of TileXorPkt) and the framebuffer,
\* the palette and the fine offsets stay as they are and no change is marked
Ignored(instr) ==
    \A ovl \in MemcpyKinds :
        LET d == readCdgSubcodePacket([Decoder EXCEPT !.needupdate = FALSE],
                                      Pkt(9, instr, SubSeq(TileXorPkt, 5, 20)), ovl)
        IN Visible(d) = Visible(Decoder) /\ ~d.needupdate

\* C21 as stated: a CDG packet whose instruction & 0x3F is not one of the
\* eight codes {1, 2, 6, 20, 24, 28, 30, 31} is ignored: it leaves the
\* framebuffer, the palette and the fine offsets unchanged and marks no
\* visible change.
C21_UnknownIgnored ==
    \A instr \in Byte : (instr % 64) \notin TableCodes => Ignored(instr)

\* C21 amended: a CDG packet whose instruction & 0x3F is not one of the nine
\* codes {1, 2, 6, 20, 24, 28, 30, 31, 38} is ignored: it leaves the
\* framebuffer, the palette and the fine offsets unchanged and marks no
\* visible change.
C21_UnhandledIgnored ==
    \A instr \in Byte : (instr % 64) \notin HandledCodes => Ignored(instr)

\* C21 witness: a Tile Block, then a CDG packet with instruction 0x21, which
\* left the framebuffer as the Tile Block made it and marked no change
C21_Witness ==
    /\ opened.bytes = TilePkt \o UnknownPkt
    /\ m_position = 2
    /\ m_image = After(1).image
    /\ m_image # Fill(0)
    /\ ~m_needupdate

(***************************************************************************)
(* Properties of the lookups by time.                                      *)
(***************************************************************************)

\* C22: tempo scaling is applied uniformly: for every timestamp ms >= 0 and
\* every tempo percentage > 0, can_skip_at(ms) and frame_at(ms) resolve ms to
\* the same frame index (before any end-of-sequence handling).
C22_SameFrameIndex ==
    m_tempo > 0
        => \A ms \in Timestamps : canSkipFrameNo(ms) = videoFrameNo(ms)

\* C22 witness: a processed decoder of three frames at half tempo, where both
\* lookups resolve 60 ms to frame 1 (30 ms of stream time is frame 0, and one
\* more for 60 % 40 > 0); at tempo 100 they resolve it to frame 2
C22_Witness ==
    /\ Processed
    /\ lastCall = "setTempo"
    /\ m_tempo = 50
    /\ Len(m_frames) = 3
    /\ canSkipFrameNo(60) = 1
    /\ videoFrameNo(60) = 1
    /\ ~canSkipThrows(60)
    /\ ~videoFrameThrows(60)

\* C23: for every processed decoder (any number of frames, also zero) and
\* every timestamp ms >= 0, canSkipFrameByTime(ms) reads the skip sequence
\* only at indices in [0, len(skip)), so the call returns a boolean and does
\* not fail with an out-of-range access.
C23_CanSkipInRange ==
    Processed => \A ms \in Timestamps : ~canSkipThrows(ms)
====
